---- MODULE Spec2Model ----
(***************************************************************************)
(* Model of the expense-agent backend (backend/index.js): the POST /chat   *)
(* handler, the process-wide chatHistory array, the agent executor loop    *)
(* (Deciding / ToolExecuting), the three tools and the 'claims' table.     *)
(* The language model and the hosted database are external: what they      *)
(* answer is a nondeterministic choice over small sets.                    *)
(***************************************************************************)
EXTENDS Integers, Sequences, FiniteSets, TLC

\* ------------------------------------------------------------------ bounds
MaxReq == 2          \* number of HTTP requests in one run
MaxToolCalls == 1    \* tool invocations the model may request in one run

ToolsMaxReq == 2     \* number of HTTP requests in one run of SpecTools

Reqs == 1..(IF MaxReq > ToolsMaxReq THEN MaxReq ELSE ToolsMaxReq)

\* ------------------------------------------------------------ input values
Undefined == "<undefined>"            \* body without a message field
\* two browser clients, each with its uuidv4() session id and what it sends
Bodies == {[message |-> "m1", sessionId |-> "s1"],
           [message |-> "", sessionId |-> "s1"],
           [message |-> "m2", sessionId |-> "s2"],
           [message |-> Undefined, sessionId |-> "s2"]}
Answers == {"a1", "a2"}               \* final texts the model may produce
Descriptions == {"taxi"}
Amounts == {-5, 0, 42}

\* e-mail addresses are sequences of characters, so that validation is a
\* computation on the text and not a lookup
EmailA == <<"a", "@", "c", ".", "d">>
EmailB == <<"b", "@", "c", ".", "d">>
BadEmail == <<"a", "c", ".", "d">>
NoEmail == <<>>
Emails == {EmailA, EmailB, BadEmail}

\* ------------------------------------------------------------- the schemas
\* z.string().email(): one "@", a non-empty local part, and a domain made of
\* at least two non-empty labels separated by "."
IsEmail(s) ==
    /\ Cardinality({i \in 1..Len(s) : s[i] = "@"}) = 1
    /\ LET at == CHOOSE i \in 1..Len(s) : s[i] = "@"
       IN /\ at > 1
          /\ at + 1 < Len(s)
          /\ s[at + 1] # "."
          /\ s[Len(s)] # "."
          /\ \E j \in (at + 2)..(Len(s) - 1) : s[j] = "."
          /\ \A j \in (at + 1)..(Len(s) - 1) : ~(s[j] = "." /\ s[j + 1] = ".")

\* schema of submit_expense_claim: email is an e-mail, description a string,
\* amount a number (any number: there is no sign check)
SubmitSchemaOk(args) == IsEmail(args.email)

\* schema of get_user_claims
GetClaimsSchemaOk(args) == IsEmail(args.email)

\* ------------------------------------------------------------ tool results
\* A tool result is the template string of the source with the values that
\* are interpolated into it.
Result(t, e, ls) == [template |-> t, email |-> e, lines |-> ls]

SuccessMessage(email) ==
    Result("Successfully submitted expense claim for ${email}. The details have been recorded in the database.", email, <<>>)

SubmitFailureMessage ==
    Result("Failed to submit expense claim due to an internal error.", NoEmail, <<>>)

FetchFailureMessage ==
    Result("Failed to retrieve claims due to an internal error.", NoEmail, <<>>)

NoClaimsMessage(email) ==
    Result("No past claims found for ${email}.", email, <<>>)

RECURSIVE FormatClaims(_)
FormatClaims(data) ==
    IF data = <<>> THEN <<>>
    ELSE <<[id |-> Head(data).id, description |-> Head(data).description,
            amount |-> Head(data).amount, status |-> Head(data).status]>>
         \o FormatClaims(Tail(data))

ClaimsMessage(email, data) ==
    Result("Here are the past claims for ${email}:\n${formattedClaims}", email, FormatClaims(data))

PolicyText == Result("policy chunks", NoEmail, <<>>)
NoResult == Result("", NoEmail, <<>>)


\* ------------------------------------------------------- the tool handlers
StoreOutcomes == {"ok", "error", "throw"}   \* insert/select: fine, {error}, exception

\* variant: the row is written without the status the program sets
InsertRowPending(tbl, email, description, amount) ==
    Append(tbl, [id |-> Len(tbl) + 1, email |-> email, description |-> description,
                 amount |-> amount, status |-> "Pending"])

\* client.from('claims').insert({ email, description, amount, status })
InsertRow(tbl, email, description, amount) ==
    Append(tbl, [id |-> Len(tbl) + 1, email |-> email, description |-> description,
                 amount |-> amount, status |-> "Submitted"])

\* variant: the {error} of the insert is not looked at
SubmitReturnIgnoringError(outcome, email) ==
    IF outcome # "throw" THEN SuccessMessage(email) ELSE SubmitFailureMessage

\* what expenseClaimTool.func returns; an {error} is rethrown inside the try
\* and lands, like an exception of the client, in the catch
SubmitReturn(outcome, email) ==
    IF outcome = "ok" THEN SuccessMessage(email) ELSE SubmitFailureMessage

\* .select(...).eq('email', email)
RECURSIVE SelectByEmail(_, _)
SelectByEmail(tbl, email) ==
    IF tbl = <<>> THEN <<>>
    ELSE (IF Head(tbl).email = email THEN <<Head(tbl)>> ELSE <<>>)
         \o SelectByEmail(Tail(tbl), email)

\* what getUserClaimsTool.func returns
GetClaimsReturn(outcome, email, tbl) ==
    IF outcome # "ok" THEN FetchFailureMessage
    ELSE IF SelectByEmail(tbl, email) = <<>> THEN NoClaimsMessage(email)
    ELSE ClaimsMessage(email, SelectByEmail(tbl, email))

\* new AgentExecutor({ agent, tools, verbose: false }): handleParsingErrors is
\* not set, so the executor rethrows a ToolInputParsingException
handleParsingErrors == FALSE
ParsingErrorObservation ==
    Result("Invalid or incomplete tool input. Please try again.", NoEmail, <<>>)

\* ------------------------------------------------------------ the endpoint
BadRequestStatus == 400
ErrorStatus == 500
OkStatus == 200

\* variant: only a missing field is refused (message === undefined)
FalsyMissingOnly(m) == m = Undefined

\* if (!message)
Falsy(m) == m = "" \/ m = Undefined

ErrorPayload(text) == [kind |-> "error", text |-> text]
ResponsePayload(text) == [kind |-> "response", text |-> text]
NoPayload == [kind |-> "none", text |-> ""]

\* variant: the user's message is not stored
StoreHistoryAiOnly(h, message, out) ==
    Append(h, [role |-> "ai", content |-> out])

\* variant: the stored answer is not the one sent
StoreHistoryEcho(h, message, out) ==
    Append(Append(h, [role |-> "human", content |-> message]),
           [role |-> "ai", content |-> message])

\* variant: the two pushes in the other order
StoreHistoryAiFirst(h, message, out) ==
    Append(Append(h, [role |-> "ai", content |-> out]),
           [role |-> "human", content |-> message])

\* chatHistory.push({ role: "human", ... }); chatHistory.push({ role: "ai", ... })
StoreHistory(h, message, out) ==
    Append(Append(h, [role |-> "human", content |-> message]),
           [role |-> "ai", content |-> out])

\* ------------------------------------------------------------------- state
VARIABLES
    chatHistory,   \* the process-wide array of { role, content }
    turnOwner,     \* history: the request that pushed each turn
    claims,        \* the rows of the 'claims' table
    pc,            \* where each request's handler is
    body,          \* req.body of each request
    status,        \* HTTP status sent, 0 while none
    response,      \* JSON payload sent
    invoked,       \* agentExecutor.invoke was called for the request
    ctx,           \* chat_history as last formatted into the prompt
    toolCall,      \* the tool invocation requested by the model
    scratchpad,    \* agent_scratchpad: the steps taken in this turn
    output,        \* result.output
    thrown,        \* the exception that rejected invoke, "none" if none
    startLen,      \* history: length of chatHistory when the request arrived
    arrivals,      \* history: requests in order of arrival
    completions,   \* history: requests in order of their 200 response
    toolCalls      \* history: number of tool invocations requested so far

vars == <<chatHistory, turnOwner, claims, pc, body, status, response, invoked,
          ctx, toolCall, scratchpad, output, thrown, startLen, arrivals,
          completions, toolCalls>>

NoBody == [message |-> Undefined, sessionId |-> "s1"]
NoCall == [tool |-> "none", args |-> [email |-> NoEmail, description |-> "", amount |-> 0]]

\* the calls the model may request; every amount is tried with EmailA, the
\* other addresses come with one amount
SubmitCalls ==
    {c \in {[tool |-> "submit_expense_claim",
             args |-> [email |-> e, description |-> d, amount |-> a]] :
                e \in Emails, d \in Descriptions, a \in Amounts} :
        c.args.email # EmailA => c.args.amount = 42}
GetClaimsCalls ==
    {[tool |-> "get_user_claims",
      args |-> [email |-> e, description |-> "", amount |-> 0]] : e \in Emails}
SearchCalls ==
    {[tool |-> "expense_policy_search",
      args |-> [email |-> NoEmail, description |-> "per-diem", amount |-> 0]]}

\* variant: the history is partitioned by the sessionId of the request
RECURSIVE TurnsOfSession(_, _, _)
TurnsOfSession(h, owners, sid) ==
    IF h = <<>> THEN <<>>
    ELSE (IF body[Head(owners)].sessionId = sid THEN <<Head(h)>> ELSE <<>>)
         \o TurnsOfSession(Tail(h), Tail(owners), sid)
ContextOfSession(r) == TurnsOfSession(chatHistory, turnOwner, body[r].sessionId)

\* chat_history: chatHistory -- the array itself, whoever the client is
Context(r) == chatHistory

Init ==
    /\ chatHistory = <<>>
    /\ turnOwner = <<>>
    /\ claims = <<>>
    /\ pc = [r \in Reqs |-> "idle"]
    /\ body = [r \in Reqs |-> NoBody]
    /\ status = [r \in Reqs |-> 0]
    /\ response = [r \in Reqs |-> NoPayload]
    /\ invoked = [r \in Reqs |-> FALSE]
    /\ ctx = [r \in Reqs |-> <<>>]
    /\ toolCall = [r \in Reqs |-> NoCall]
    /\ scratchpad = [r \in Reqs |-> <<>>]
    /\ output = [r \in Reqs |-> ""]
    /\ thrown = [r \in Reqs |-> "none"]
    /\ startLen = [r \in Reqs |-> 0]
    /\ arrivals = <<>>
    /\ completions = <<>>
    /\ toolCalls = 0

Step(call, outcome, obs) ==
    [tool |-> call.tool, args |-> call.args, store |-> outcome, observation |-> obs]

\* the locals of a finished invocation are gone with it
DropLocals(r) ==
    /\ ctx' = [ctx EXCEPT ![r] = <<>>]
    /\ toolCall' = [toolCall EXCEPT ![r] = NoCall]
    /\ scratchpad' = [scratchpad EXCEPT ![r] = <<>>]
    /\ output' = [output EXCEPT ![r] = ""]
    /\ thrown' = [thrown EXCEPT ![r] = "none"]
    /\ startLen' = [startLen EXCEPT ![r] = 0]

\* app.post("/chat"): the handler up to its first await
PostChat(r, b) ==
    /\ pc[r] = "idle"
    /\ r = Len(arrivals) + 1
    /\ body' = [body EXCEPT ![r] = b]
    /\ arrivals' = Append(arrivals, r)
    /\ startLen' = [startLen EXCEPT ![r] = Len(chatHistory)]
    /\ IF Falsy(b.message)
       THEN /\ status' = [status EXCEPT ![r] = BadRequestStatus]
            /\ response' = [response EXCEPT ![r] = ErrorPayload("Message is required")]
            /\ pc' = [pc EXCEPT ![r] = "done"]
            /\ UNCHANGED invoked
       ELSE /\ invoked' = [invoked EXCEPT ![r] = TRUE]
            /\ pc' = [pc EXCEPT ![r] = "deciding"]
            /\ UNCHANGED <<status, response>>
    /\ UNCHANGED <<chatHistory, turnOwner, claims, ctx, toolCall, scratchpad,
                   output, thrown, completions, toolCalls>>

\* Deciding: the model answers directly
DecideAnswer(r, text) ==
    /\ pc[r] = "deciding"
    /\ ctx' = [ctx EXCEPT ![r] = Context(r)]
    /\ output' = [output EXCEPT ![r] = text]
    /\ pc' = [pc EXCEPT ![r] = "resolved"]
    /\ UNCHANGED <<chatHistory, turnOwner, claims, body, status, response,
                   invoked, toolCall, scratchpad, thrown, startLen, arrivals,
                   completions, toolCalls>>

\* Deciding: the model requests a tool
DecideTool(r, call) ==
    /\ pc[r] = "deciding"
    /\ toolCalls < MaxToolCalls
    /\ toolCalls' = toolCalls + 1
    /\ ctx' = [ctx EXCEPT ![r] = Context(r)]
    /\ toolCall' = [toolCall EXCEPT ![r] = call]
    /\ pc' = [pc EXCEPT ![r] = "tool"]
    /\ UNCHANGED <<chatHistory, turnOwner, claims, body, status, response,
                   invoked, scratchpad, output, thrown, startLen, arrivals,
                   completions>>

\* Deciding: the call of the model fails
DecideFail(r) ==
    /\ pc[r] = "deciding"
    /\ ctx' = [ctx EXCEPT ![r] = Context(r)]
    /\ thrown' = [thrown EXCEPT ![r] = "AgentError"]
    /\ pc' = [pc EXCEPT ![r] = "rejected"]
    /\ UNCHANGED <<chatHistory, turnOwner, claims, body, status, response,
                   invoked, toolCall, scratchpad, output, startLen, arrivals,
                   completions, toolCalls>>

\* the executor on a tool input that does not match the tool's schema
ParsingFailure(r) ==
    IF handleParsingErrors
    THEN /\ scratchpad' = [scratchpad EXCEPT ![r] =
                Append(@, Step(toolCall[r], "none", ParsingErrorObservation))]
         /\ pc' = [pc EXCEPT ![r] = "deciding"]
         /\ UNCHANGED thrown
    ELSE /\ thrown' = [thrown EXCEPT ![r] = "ToolInputParsingException"]
         /\ pc' = [pc EXCEPT ![r] = "rejected"]
         /\ UNCHANGED scratchpad

\* ToolExecuting: submit_expense_claim
ExecSubmitClaim(r, outcome) ==
    /\ pc[r] = "tool"
    /\ toolCall[r].tool = "submit_expense_claim"
    /\ LET a == toolCall[r].args IN
       IF ~SubmitSchemaOk(a)
       THEN ParsingFailure(r) /\ UNCHANGED claims
       ELSE /\ claims' = IF outcome = "ok"
                         THEN InsertRow(claims, a.email, a.description, a.amount)
                         ELSE claims
            /\ scratchpad' = [scratchpad EXCEPT ![r] =
                   Append(@, Step(toolCall[r], outcome, SubmitReturn(outcome, a.email)))]
            /\ pc' = [pc EXCEPT ![r] = "deciding"]
            /\ UNCHANGED thrown
    /\ UNCHANGED <<chatHistory, turnOwner, body, status, response, invoked,
                   ctx, toolCall, output, startLen, arrivals, completions, toolCalls>>

\* ToolExecuting: get_user_claims
ExecGetUserClaims(r, outcome) ==
    /\ pc[r] = "tool"
    /\ toolCall[r].tool = "get_user_claims"
    /\ LET a == toolCall[r].args IN
       IF ~GetClaimsSchemaOk(a)
       THEN ParsingFailure(r)
       ELSE /\ scratchpad' = [scratchpad EXCEPT ![r] =
                   Append(@, Step(toolCall[r], outcome,
                                  GetClaimsReturn(outcome, a.email, claims)))]
            /\ pc' = [pc EXCEPT ![r] = "deciding"]
            /\ UNCHANGED thrown
    /\ UNCHANGED <<chatHistory, turnOwner, claims, body, status, response,
                   invoked, ctx, toolCall, output, startLen, arrivals,
                   completions, toolCalls>>

\* ToolExecuting: expense_policy_search; the retriever is a library tool, a
\* failure of its services either reaches the model as an empty observation
\* or rejects the invocation
ExecPolicySearch(r, outcome) ==
    /\ pc[r] = "tool"
    /\ toolCall[r].tool = "expense_policy_search"
    /\ IF outcome = "throw"
       THEN /\ thrown' = [thrown EXCEPT ![r] = "RetrieverError"]
            /\ pc' = [pc EXCEPT ![r] = "rejected"]
            /\ UNCHANGED scratchpad
       ELSE /\ scratchpad' = [scratchpad EXCEPT ![r] =
                   Append(@, Step(toolCall[r], outcome,
                                  IF outcome = "ok" THEN PolicyText ELSE NoResult))]
            /\ pc' = [pc EXCEPT ![r] = "deciding"]
            /\ UNCHANGED thrown
    /\ UNCHANGED <<chatHistory, turnOwner, claims, body, status, response,
                   invoked, ctx, toolCall, output, startLen, arrivals,
                   completions, toolCalls>>

\* Responding: invoke resolved; store history and answer
Respond(r) ==
    /\ pc[r] = "resolved"
    /\ chatHistory' = StoreHistory(chatHistory, body[r].message, output[r])
    /\ turnOwner' = turnOwner \o [i \in 1..(Len(chatHistory') - Len(chatHistory)) |-> r]
    /\ status' = [status EXCEPT ![r] = OkStatus]
    /\ response' = [response EXCEPT ![r] = ResponsePayload(output[r])]
    /\ completions' = Append(completions, r)
    /\ pc' = [pc EXCEPT ![r] = "done"]
    /\ DropLocals(r)
    /\ UNCHANGED <<claims, body, invoked, arrivals, toolCalls>>

\* variant: the message of a failed request is stored all the same
FailStoring(r) ==
    /\ pc[r] = "rejected"
    /\ chatHistory' = Append(chatHistory, [role |-> "human", content |-> body[r].message])
    /\ turnOwner' = Append(turnOwner, r)
    /\ status' = [status EXCEPT ![r] = ErrorStatus]
    /\ response' = [response EXCEPT ![r] =
           ErrorPayload("Failed to get a response from the agent.")]
    /\ pc' = [pc EXCEPT ![r] = "done"]
    /\ DropLocals(r)
    /\ UNCHANGED <<claims, body, invoked, arrivals, completions, toolCalls>>

\* catch (error): invoke rejected
Fail(r) ==
    /\ pc[r] = "rejected"
    /\ status' = [status EXCEPT ![r] = ErrorStatus]
    /\ response' = [response EXCEPT ![r] =
           ErrorPayload("Failed to get a response from the agent.")]
    /\ pc' = [pc EXCEPT ![r] = "done"]
    /\ DropLocals(r)
    /\ UNCHANGED <<chatHistory, turnOwner, claims, body, invoked, arrivals,
                   completions, toolCalls>>

\* the server under concurrent clients; the model picks among a few tool calls
ChatCalls ==
    {c \in SubmitCalls : c.args.email = EmailA /\ c.args.amount = 42}
    \cup {c \in GetClaimsCalls : c.args.email = EmailA}
    \cup SearchCalls

Next ==
    \/ \E r \in 1..MaxReq, b \in Bodies : PostChat(r, b)
    \/ \E r \in Reqs, t \in Answers : DecideAnswer(r, t)
    \/ \E r \in Reqs, c \in ChatCalls : DecideTool(r, c)
    \/ \E r \in Reqs : DecideFail(r)
    \/ \E r \in Reqs, o \in StoreOutcomes : ExecSubmitClaim(r, o)
    \/ \E r \in Reqs, o \in StoreOutcomes : ExecGetUserClaims(r, o)
    \/ \E r \in Reqs, o \in StoreOutcomes : ExecPolicySearch(r, o)
    \/ \E r \in Reqs : Respond(r)
    \/ \E r \in Reqs : Fail(r)

Spec == Init /\ [][Next]_vars

\* the tools under every argument the model may pass, for a few requests
ToolsBodies == {b \in Bodies : b.message = "m1"}
ToolsAnswers == {"a1"}

NextTools ==
    \/ \E r \in 1..ToolsMaxReq, b \in ToolsBodies : PostChat(r, b)
    \/ \E r \in Reqs, t \in ToolsAnswers : DecideAnswer(r, t)
    \/ \E r \in Reqs, c \in SubmitCalls \cup GetClaimsCalls \cup SearchCalls : DecideTool(r, c)
    \/ \E r \in Reqs : DecideFail(r)
    \/ \E r \in Reqs, o \in StoreOutcomes : ExecSubmitClaim(r, o)
    \/ \E r \in Reqs, o \in StoreOutcomes : ExecGetUserClaims(r, o)
    \/ \E r \in Reqs, o \in StoreOutcomes : ExecPolicySearch(r, o)
    \/ \E r \in Reqs : Respond(r)
    \/ \E r \in Reqs : Fail(r)

\* the claims table outlives the server: it may hold a row of an earlier run
InitTools ==
    /\ chatHistory = <<>>
    /\ turnOwner = <<>>
    /\ claims \in {<<>>, InsertRow(<<>>, EmailB, "taxi", 42)}
    /\ pc = [r \in Reqs |-> "idle"]
    /\ body = [r \in Reqs |-> NoBody]
    /\ status = [r \in Reqs |-> 0]
    /\ response = [r \in Reqs |-> NoPayload]
    /\ invoked = [r \in Reqs |-> FALSE]
    /\ ctx = [r \in Reqs |-> <<>>]
    /\ toolCall = [r \in Reqs |-> NoCall]
    /\ scratchpad = [r \in Reqs |-> <<>>]
    /\ output = [r \in Reqs |-> ""]
    /\ thrown = [r \in Reqs |-> "none"]
    /\ startLen = [r \in Reqs |-> 0]
    /\ arrivals = <<>>
    /\ completions = <<>>
    /\ toolCalls = 0

SpecTools == InitTools /\ [][NextTools]_vars


\* ------------------------------------------------------------- properties
Last(q) == q[Len(q)]
InFlight(r) == pc[r] \in {"deciding", "tool", "resolved", "rejected"}
HasTurn(r) == \E i \in 1..Len(turnOwner) : turnOwner[i] = r
IsPrefix(p, q) == Len(p) <= Len(q) /\ \A i \in 1..Len(p) : p[i] = q[i]

\* C1: a POST /chat whose body has no message (missing or empty) is answered
\* 400 with an error payload, the agent is never invoked for it and the
\* request leaves chatHistory as it found it
C1_NoMessageIs400 ==
    /\ [](\A r \in Reqs :
            (pc[r] # "idle" /\ body[r].message \in {"", Undefined}) =>
                /\ pc[r] = "done"
                /\ status[r] = 400
                /\ response[r].kind = "error"
                /\ ~invoked[r]
                /\ ~HasTurn(r))
    /\ [][\A r \in Reqs :
            (pc[r] = "idle" /\ pc'[r] # "idle" /\ body'[r].message \in {"", Undefined}) =>
                chatHistory' = chatHistory]_vars

\* a request without message is refused while another request is in flight
C1_Witness ==
    \E r, q \in Reqs : status[r] = 400 /\ body[r].message = "" /\ pc[q] = "tool"

\* C2 (as stated): while the orchestrator is deciding or executing a tool for a
\* message, the user turn of that message is already in chatHistory
C2_UserTurnBeforeDeciding ==
    \A r \in Reqs :
        pc[r] \in {"deciding", "tool"} =>
            \E i \in 1..Len(chatHistory) :
                turnOwner[i] = r /\ chatHistory[i].content = body[r].message

\* C2 (amended): while the orchestrator is deciding or executing a tool for a
\* message, no turn of that request is in chatHistory; the user turn is
\* appended only when the invocation has resolved, right before the answer
C2_UserTurnAfterInvoke ==
    /\ [](\A r \in Reqs : InFlight(r) => ~HasTurn(r))
    /\ [][\A r \in Reqs :
            (pc[r] = "resolved" /\ pc'[r] = "done") =>
                /\ Len(chatHistory') = Len(chatHistory) + 2
                /\ chatHistory'[Len(chatHistory) + 1] =
                       [role |-> "human", content |-> body[r].message]
                /\ chatHistory'[Len(chatHistory) + 2].role = "ai"]_vars

\* the orchestrator executes a tool for a request while turns of an earlier
\* request are in the history
C2_Witness ==
    \E r \in Reqs : pc[r] = "tool" /\ Len(chatHistory) > 0 /\ ~HasTurn(r)

\* C7: there is one chatHistory: what a request hands to the orchestrator is
\* the shared sequence itself, so it holds every turn recorded before the
\* request arrived, of whatever session
Decided(r) ==
    \/ pc[r] \in {"tool", "resolved", "rejected"}
    \/ pc[r] = "deciding" /\ scratchpad[r] # <<>>

C7_OneSharedHistory ==
    \A r \in Reqs :
        Decided(r) =>
            /\ Len(ctx[r]) >= startLen[r]
            /\ IsPrefix(ctx[r], chatHistory)

\* the context of a request holds a turn recorded for another session
C7_Witness ==
    \E r \in Reqs :
        /\ Decided(r)
        /\ \E i \in 1..Len(ctx[r]) :
              /\ body[turnOwner[i]].sessionId # body[r].sessionId
              /\ ctx[r][i].content = body[turnOwner[i]].message

\* C8: a request answered 200 appends exactly one assistant turn, whose
\* content is the text sent to the caller, and is finished; no step removes,
\* changes or reorders a turn that is in chatHistory
C8_OneAssistantTurn ==
    [][/\ IsPrefix(chatHistory, chatHistory')
       /\ \A r \in Reqs :
            (pc[r] # "done" /\ pc'[r] = "done" /\ status'[r] = 200) =>
                /\ Cardinality({i \in (Len(chatHistory) + 1)..Len(chatHistory') :
                                    chatHistory'[i].role = "ai"}) = 1
                /\ \A i \in (Len(chatHistory) + 1)..Len(chatHistory') :
                        chatHistory'[i].role = "ai" =>
                            chatHistory'[i].content = response'[r].text
                /\ response'[r].kind = "response"]_vars

\* a second request has been answered 200
C8_Witness ==
    /\ Len(chatHistory) >= 4
    /\ \E r \in Reqs : status[r] = 200 /\ turnOwner[Len(turnOwner)] = r

\* C9: chatHistory is a sequence of (human, ai) pairs, each pushed by one
\* request, in the order in which the requests were answered
C9_PairsInCompletionOrder ==
    /\ Len(chatHistory) = 2 * Len(completions)
    /\ Len(turnOwner) = Len(chatHistory)
    /\ \A k \in 1..Len(completions) :
          /\ chatHistory[2 * k - 1] =
                 [role |-> "human", content |-> body[completions[k]].message]
          /\ chatHistory[2 * k].role = "ai"
          /\ turnOwner[2 * k - 1] = completions[k]
          /\ turnOwner[2 * k] = completions[k]

\* the request that arrived second was answered first
C9_Witness ==
    /\ Len(chatHistory) = 4
    /\ turnOwner[1] > turnOwner[3]

\* C10: when the invocation is rejected the caller gets 500 with an error
\* payload and the request leaves no turn in chatHistory
C10_FailureLeavesNoTurn ==
    /\ [](\A r \in Reqs : status[r] = 500 => response[r].kind = "error" /\ ~HasTurn(r))
    /\ [][\A r \in Reqs :
            (pc[r] = "rejected" /\ pc'[r] # "rejected") =>
                /\ status'[r] = 500
                /\ chatHistory' = chatHistory]_vars

\* a request is answered after an earlier one has failed
C10_Witness ==
    \E r, q \in Reqs : r < q /\ status[r] = 500 /\ status[q] = 200


\* a step of request r that carries out the pending call of the given tool
Dispatched(r, tool) ==
    pc[r] = "tool" /\ pc'[r] # "tool" /\ toolCall[r].tool = tool

\* C3: a submit_expense_claim call with a syntactically invalid e-mail inserts
\* no row and gives the orchestrator a validation message as the tool's
\* result; it does not reject the invocation
C3_InvalidEmailIsToolResult ==
    \A r \in Reqs :
        (/\ toolCall[r].tool = "submit_expense_claim"
         /\ toolCall[r].args.email = BadEmail
         /\ pc[r] # "tool") =>
            /\ thrown[r] = "none"
            /\ pc[r] \in {"deciding", "resolved"}
            /\ scratchpad[r] # <<>>
            /\ Last(scratchpad[r]).tool = "submit_expense_claim"
            /\ Last(scratchpad[r]).observation.template
                   \notin {SuccessMessage(NoEmail).template, SubmitFailureMessage.template}

\* C4: every row of the claims table has a positive amount
C4_AmountsPositive ==
    \A i \in 1..Len(claims) : claims[i].amount > 0

\* C5: a submit_expense_claim call with a valid e-mail and a positive amount
\* whose insert succeeds adds exactly one row, with the given email,
\* description and amount and status "Submitted", leaves every other row as
\* it was, and returns the message that names the e-mail
C5_ValidSubmitInsertsOneRow ==
    [][\A r \in Reqs :
        (/\ Dispatched(r, "submit_expense_claim")
         /\ toolCall[r].args.email \in {EmailA, EmailB}
         /\ toolCall[r].args.amount > 0
         /\ Len(scratchpad'[r]) = Len(scratchpad[r]) + 1
         /\ Last(scratchpad'[r]).store = "ok") =>
            /\ Len(claims') = Len(claims) + 1
            /\ IsPrefix(claims, claims')
            /\ Last(claims').email = toolCall[r].args.email
            /\ Last(claims').description = toolCall[r].args.description
            /\ Last(claims').amount = toolCall[r].args.amount
            /\ Last(claims').status = "Submitted"
            /\ Last(scratchpad'[r]).observation.template =
                   "Successfully submitted expense claim for ${email}. The details have been recorded in the database."
            /\ Last(scratchpad'[r]).observation.email = toolCall[r].args.email]_vars

\* a valid claim has been recorded in a table that already held a row
C5_Witness ==
    /\ Len(claims) = 2
    /\ \E r \in Reqs :
          /\ scratchpad[r] # <<>>
          /\ Last(scratchpad[r]).tool = "submit_expense_claim"
          /\ Last(scratchpad[r]).store = "ok"
          /\ Last(scratchpad[r]).args.amount > 0
          /\ Last(scratchpad[r]).args.email = Last(claims).email
          /\ claims[1].email # Last(claims).email

\* C6: a submit_expense_claim or get_user_claims call that passed its schema
\* never rejects the invocation; when its store call fails (error returned or
\* exception thrown) the orchestrator gets the tool's failure string, never the
\* success message, the table is unchanged and no response has been sent
C6_StoreFailureIsToolResult ==
    [][\A r \in Reqs :
        (/\ Dispatched(r, "submit_expense_claim") \/ Dispatched(r, "get_user_claims")
         /\ toolCall[r].args.email \in {EmailA, EmailB}) =>
            /\ pc'[r] = "deciding"
            /\ thrown'[r] = "none"
            /\ status'[r] = 0
            /\ Len(scratchpad'[r]) = Len(scratchpad[r]) + 1
            /\ Last(scratchpad'[r]).store \in {"error", "throw"} =>
                  /\ claims' = claims
                  /\ Last(scratchpad'[r]).observation.template =
                        IF toolCall[r].tool = "submit_expense_claim"
                        THEN "Failed to submit expense claim due to an internal error."
                        ELSE "Failed to retrieve claims due to an internal error."]_vars

\* the orchestrator has answered a request although the insert of its
\* submit_expense_claim call returned an error
C6_Witness ==
    \E r \in Reqs :
        /\ pc[r] = "resolved"
        /\ scratchpad[r] # <<>>
        /\ Last(scratchpad[r]).tool = "submit_expense_claim"
        /\ Last(scratchpad[r]).store = "error"
        /\ Last(scratchpad[r]).observation = SubmitFailureMessage

====
